---- MODULE Spec2Model ----
(***************************************************************************)
(* Model of f360_seam.py: merging Fusion 360 G-code programs.              *)
(*                                                                         *)
(* A line of text is a sequence of one-character strings, kept with its    *)
(* line terminator "\n" exactly as file.readlines() returns it (the last   *)
(* line of a file may lack the terminator).  A program is a sequence of    *)
(* lines.  The regular expressions of the source are written out as        *)
(* matchers over these character sequences.                                *)
(***************************************************************************)
EXTENDS Integers, Sequences, FiniteSets, TLC

(***************************************************************************)
(* Characters and the str / re primitives the source uses.                 *)
(***************************************************************************)
Digit == {"0", "1", "2", "3", "4", "5", "6", "7", "8", "9"}

\* [ \t] in the patterns of extract_header, extract_body and the renumbering
SpaceTab == {" ", "\t"}

\* what str.strip()/str.lstrip() remove and what \s matches
Whitespace == {" ", "\t", "\n", "\r"}

DigitValue(c) ==
    CASE c = "0" -> 0 [] c = "1" -> 1 [] c = "2" -> 2 [] c = "3" -> 3
      [] c = "4" -> 4 [] c = "5" -> 5 [] c = "6" -> 6 [] c = "7" -> 7
      [] c = "8" -> 8 [] c = "9" -> 9

DigitChar(d) == <<"0", "1", "2", "3", "4", "5", "6", "7", "8", "9">>[d + 1]

\* str.lower() on one character
LowerChar(c) ==
    CASE c = "A" -> "a" [] c = "B" -> "b" [] c = "C" -> "c" [] c = "D" -> "d"
      [] c = "E" -> "e" [] c = "F" -> "f" [] c = "G" -> "g" [] c = "H" -> "h"
      [] c = "I" -> "i" [] c = "J" -> "j" [] c = "K" -> "k" [] c = "L" -> "l"
      [] c = "M" -> "m" [] c = "N" -> "n" [] c = "O" -> "o" [] c = "P" -> "p"
      [] c = "Q" -> "q" [] c = "R" -> "r" [] c = "S" -> "s" [] c = "T" -> "t"
      [] c = "U" -> "u" [] c = "V" -> "v" [] c = "W" -> "w" [] c = "X" -> "x"
      [] c = "Y" -> "y" [] c = "Z" -> "z" [] OTHER -> c

lower(s) == [i \in 1..Len(s) |-> LowerChar(s[i])]

\* the first index >= i of s whose character is not in class C (Len(s)+1 if none):
\* where a greedy C* started at i stops
RECURSIVE SkipClass(_, _, _)
SkipClass(s, i, C) ==
    IF i <= Len(s) /\ s[i] \in C THEN SkipClass(s, i + 1, C) ELSE i

RECURSIVE LastNonSpace(_, _)
LastNonSpace(s, i) ==
    IF i >= 1 /\ s[i] \in Whitespace THEN LastNonSpace(s, i - 1) ELSE i

lstrip(s) == SubSeq(s, SkipClass(s, 1, Whitespace), Len(s))

strip(s) == SubSeq(s, SkipClass(s, 1, Whitespace), LastNonSpace(s, Len(s)))

startswith(s, p) == Len(s) >= Len(p) /\ SubSeq(s, 1, Len(p)) = p

\* the literal lit stands in s at index i
MatchAt(s, i, lit) ==
    /\ i >= 1
    /\ i + Len(lit) - 1 <= Len(s)
    /\ SubSeq(s, i, i + Len(lit) - 1) = lit

\* Python's  sub in s
Contains(s, sub) == \E i \in 1..Len(s) : MatchAt(s, i, sub)

\* str(n) for n >= 0
RECURSIVE Digits(_)
Digits(n) == IF n < 10 THEN <<DigitChar(n)>>
             ELSE Digits(n \div 10) \o <<DigitChar(n % 10)>>

\* int(s) for a non-empty sequence of digits
RECURSIVE ParseInt(_)
ParseInt(s) == IF Len(s) = 0 THEN 0
               ELSE 10 * ParseInt(SubSeq(s, 1, Len(s) - 1)) + DigitValue(s[Len(s)])

RECURSIVE Flatten(_)
Flatten(lines) == IF Len(lines) = 0 THEN <<>>
                  ELSE Head(lines) \o Flatten(Tail(lines))

RECURSIVE FindNewline(_, _)
FindNewline(text, i) ==
    IF i > Len(text) \/ text[i] = "\n" THEN i ELSE FindNewline(text, i + 1)

\* file.readlines(): cut the text after every "\n"; a last piece without "\n" is a line
RECURSIVE readlines(_)
readlines(text) ==
    IF Len(text) = 0 THEN <<>>
    ELSE LET k == FindNewline(text, 1)
         IN  IF k >= Len(text) THEN <<text>>
             ELSE <<SubSeq(text, 1, k)>> \o readlines(SubSeq(text, k + 1, Len(text)))

(***************************************************************************)
(* The patterns of the source.                                             *)
(***************************************************************************)
\* line.strip().startswith('(')
is_comment(line) == startswith(strip(line), <<"(">>)

\* re.match(r'^[ \t]*N20[ \t]+G53[ \t]+G0[ \t]+Z0\.', line)
match_retract(line) ==
    LET a == SkipClass(line, 1, SpaceTab)
        b == SkipClass(line, a + 3, SpaceTab)
        c == SkipClass(line, b + 3, SpaceTab)
        d == SkipClass(line, c + 2, SpaceTab)
    IN  /\ MatchAt(line, a, <<"N", "2", "0">>)
        /\ b > a + 3
        /\ MatchAt(line, b, <<"G", "5", "3">>)
        /\ c > b + 3
        /\ MatchAt(line, c, <<"G", "0">>)
        /\ d > c + 2
        /\ MatchAt(line, d, <<"Z", "0", ".">>)

\* re.match(r'^N\d+[ \t]+T\d+[ \t]+M6', line): the pattern of extract_header and
\* extract_body, applied to the line as read (no lstrip)
match_n_toolchange(line) ==
    LET a == SkipClass(line, 2, Digit)
        b == SkipClass(line, a, SpaceTab)
        c == SkipClass(line, b + 1, Digit)
        d == SkipClass(line, c, SpaceTab)
    IN  /\ Len(line) >= 1 /\ line[1] = "N"
        /\ a > 2
        /\ b > a
        /\ b <= Len(line) /\ line[b] = "T"
        /\ c > b + 1
        /\ d > c
        /\ MatchAt(line, d, <<"M", "6">>)

\* re.match(r'^N?\d*\s*T\d+\s+M6', line.lstrip()): the pattern of
\* clean_and_renumber and validate_output
match_toolchange(line) ==
    LET s == lstrip(line)
        n == IF Len(s) >= 1 /\ s[1] = "N" THEN 2 ELSE 1
        a == SkipClass(s, n, Digit)
        b == SkipClass(s, a, Whitespace)
        c == SkipClass(s, b + 1, Digit)
        d == SkipClass(s, c, Whitespace)
    IN  /\ b <= Len(s) /\ s[b] = "T"
        /\ c > b + 1
        /\ d > c
        /\ MatchAt(s, d, <<"M", "6">>)

\* 'M30' in line or line.strip() == '%' or line.strip() == 'M2'
is_terminator(line) ==
    \/ Contains(line, <<"M", "3", "0">>)
    \/ strip(line) = <<"%">>
    \/ strip(line) = <<"M", "2">>

\* re.sub(r'^N\d+[ \t]*', '', s)
strip_sequence_number(s) ==
    LET a == SkipClass(s, 2, Digit)
    IN  IF Len(s) >= 1 /\ s[1] = "N" /\ a > 2
        THEN SubSeq(s, SkipClass(s, a, SpaceTab), Len(s))
        ELSE s

ImportantPrefixes ==
    { <<"(", "2", "d">>,
      <<"(", "3", "d">>,
      <<"(", "d", "r", "i", "l", "l">>,
      <<"(", "c", "o", "n", "t", "o", "u", "r">>,
      <<"(", "t", "o", "o", "l">>,
      <<"(", "o", "p", "e", "r", "a", "t", "i", "o", "n">>,
      <<"(", "a", "d", "a", "p", "t", "i", "v", "e">>,
      <<"(", "f", "a", "c", "i", "n", "g">>,
      <<"(", "s", "l", "o", "t">>,
      <<"(", "b", "o", "r", "e">>,
      <<"(", "t", "a", "p">>,
      <<"(", "t", "h", "r", "e", "a", "d">>,
      <<"(", "c", "h", "a", "n", "g", "e">> }

is_important_comment(line) ==
    LET stripped == lower(strip(line))
    IN  \E p \in ImportantPrefixes : startswith(stripped, p)

(***************************************************************************)
(* Segment extraction.                                                     *)
(***************************************************************************)
\* the condition that ends the header, tested after the line is appended
ends_header(gcode_line) == match_retract(gcode_line) \/ match_n_toolchange(gcode_line)

RECURSIVE extract_header(_)
extract_header(gcode_lines) ==
    IF Len(gcode_lines) = 0 THEN <<>>
    ELSE IF ends_header(Head(gcode_lines)) THEN <<Head(gcode_lines)>>
    ELSE <<Head(gcode_lines)>> \o extract_header(Tail(gcode_lines))

\* the condition that starts body collection
starts_body(gcode_line) == is_comment(gcode_line) \/ match_n_toolchange(gcode_line)

\* the loop of extract_body from a given value of operation_started
RECURSIVE body_from(_, _)
body_from(gcode_lines, operation_started) ==
    IF Len(gcode_lines) = 0 THEN <<>>
    ELSE LET gcode_line == Head(gcode_lines)
             started == operation_started \/ starts_body(gcode_line)
         IN  IF started
             THEN IF is_terminator(gcode_line) THEN <<>>
                  ELSE <<gcode_line>> \o body_from(Tail(gcode_lines), TRUE)
             ELSE body_from(Tail(gcode_lines), FALSE)

extract_body(gcode_lines) == body_from(gcode_lines, FALSE)

(***************************************************************************)
(* Stream normalisation: the pieces of one iteration of clean_and_renumber. *)
(***************************************************************************)
start_n == 10

step_n == 10

\* f'O <{toolchange_subroutine}> call\n' with the default subroutine name
toolchange_call_line ==
    <<"O", " ", "<", "t", "o", "o", "l", "c", "h", "a", "n", "g", "e", ">",
      " ", "c", "a", "l", "l", "\n">>

\* keep_all_comments ignored
keeps_comment_important_only(keep_all, line) == is_important_comment(line)

\* a comment line is kept
keeps_comment(keep_all, line) == keep_all \/ is_important_comment(line)

\* the option ignored
inserts_call_always(insert_call, line) == match_toolchange(line)

\* a synthetic call line is inserted before the line
inserts_call(insert_call, line) == insert_call /\ match_toolchange(line)

\* the line takes a new sequence number
renumbers(renum, line) == renum /\ startswith(lstrip(line), <<"N">>)

\* f'N{current_n} {code_body}'
numbered_line(n, line) ==
    <<"N">> \o Digits(n) \o <<" ">> \o strip_sequence_number(lstrip(line))

\* the step forgotten
next_n_by_one(n) == n + 1

next_n(n) == n + step_n

(***************************************************************************)
(* Assembly and validation.                                                *)
(***************************************************************************)
\* program end written before the retract
closing_block_swapped ==
    << <<"M", "5", "\n">>,
       <<"M", "3", "0", "\n">>,
       <<"G", "5", "3", " ", "G", "0", " ", "Z", "0", ".", "\n">>,
       <<"%", "\n">> >>

closing_block ==
    << <<"M", "5", "\n">>,
       <<"G", "5", "3", " ", "G", "0", " ", "Z", "0", ".", "\n">>,
       <<"M", "3", "0", "\n">>,
       <<"%", "\n">> >>

\* the text main writes to the output file
assemble(header, processed) ==
    Flatten(header) \o <<"\n">> \o Flatten(processed) \o <<"\n">>
        \o Flatten(closing_block)

Error(text, args) == [text |-> text, args |-> args]

ErrNoPercent == Error("Output does not end with %", <<>>)

ErrNoM30 == Error("No M30 found in output (should end program)", <<>>)

ErrMultipleM30 == Error("Multiple M30 lines found in output", <<>>)

ErrMismatch(found, counted) ==
    Error("Internal error: toolchange count mismatch", <<found, counted>>)

contains_m30(line) == Contains(line, <<"M", "3", "0">>)

\* a single M30 reported as a duplicate
m30_errors_from_one(m30_count) ==
    (IF m30_count = 0 THEN <<ErrNoM30>> ELSE <<>>)
        \o (IF m30_count >= 1 THEN <<ErrMultipleM30>> ELSE <<>>)

m30_errors(m30_count) ==
    (IF m30_count = 0 THEN <<ErrNoM30>> ELSE <<>>)
        \o (IF m30_count > 1 THEN <<ErrMultipleM30>> ELSE <<>>)

\* the errors validate_output finds in a non-empty list of lines
validate_output(lines, toolchanges) ==
    LET m30_count == Len(SelectSeq(lines, contains_m30))
        t_toolchange_lines == Len(SelectSeq(lines, match_toolchange))
    IN  (IF strip(lines[Len(lines)]) # <<"%">> THEN <<ErrNoPercent>> ELSE <<>>)
            \o m30_errors(m30_count)
            \o (IF t_toolchange_lines # toolchanges
                THEN <<ErrMismatch(t_toolchange_lines, toolchanges)>> ELSE <<>>)

(***************************************************************************)
(* Directory mode.                                                         *)
(***************************************************************************)
ExtNgc == <<".", "n", "g", "c">>

\* Path.glob("*.ngc") keeps a name
glob_ngc(filename) ==
    Len(filename) >= 4 /\ SubSeq(filename, Len(filename) - 3, Len(filename)) = ExtNgc

\* the start of the run of digits that ends at index i of s (i + 1 if s[i] is no digit)
RECURSIVE DigitRunStart(_, _)
DigitRunStart(s, i) ==
    IF i >= 1 /\ s[i] \in Digit THEN DigitRunStart(s, i - 1) ELSE i + 1

\* \d in place of \d+ : only the last digit is taken
extract_last_digit(filename) ==
    LET n == Len(filename)
    IN  IF n >= 5 /\ lower(SubSeq(filename, n - 3, n)) = ExtNgc
             /\ filename[n - 4] \in Digit
        THEN DigitValue(filename[n - 4])
        ELSE -1

\* re.search(r'(\d+)(?=\.ngc$)', filename, re.IGNORECASE), then int() or -1
extract_number_from_filename(filename) ==
    LET n == Len(filename)
        from == DigitRunStart(filename, n - 4)
    IN  IF n >= 5 /\ lower(SubSeq(filename, n - 3, n)) = ExtNgc /\ from <= n - 4
        THEN ParseInt(SubSeq(filename, from, n - 4))
        ELSE -1

\* sorted() is stable: a file goes after the files whose key is not larger
RECURSIVE insert_by_number(_, _)
insert_by_number(sorted, file_path) ==
    IF Len(sorted) = 0 THEN <<file_path>>
    ELSE IF extract_number_from_filename(sorted[Len(sorted)])
              <= extract_number_from_filename(file_path)
         THEN Append(sorted, file_path)
         ELSE Append(insert_by_number(SubSeq(sorted, 1, Len(sorted) - 1), file_path),
                     sorted[Len(sorted)])

RECURSIVE sorted_by_number(_)
sorted_by_number(files) ==
    IF Len(files) = 0 THEN <<>>
    ELSE insert_by_number(sorted_by_number(SubSeq(files, 1, Len(files) - 1)),
                          files[Len(files)])

has_number(file_path) == extract_number_from_filename(file_path) # -1

\* listing: the names in the directory, in the order the file system yields them
get_files_sorted_by_number(listing) ==
    SelectSeq(sorted_by_number(SelectSeq(listing, glob_ngc)), has_number)

(***************************************************************************)
(* Input lines and programs.                                               *)
(***************************************************************************)
LnOp == <<"(", "2", "D", ")", "\n">>

LnNote == <<"(", "T", "1", " ", "M", "6", ")", "\n">>

LnTool == <<"(", "T", "o", "o", "l", ")", "\n">>

LnGen == <<"(", "g", "e", "n", ")", "\n">>

LnNT1 == <<"N", "1", "0", " ", "T", "1", " ", "M", "6", "\n">>

LnT2 == <<"T", "2", " ", "M", "6", "\n">>

LnRetract ==
    <<"N", "2", "0", " ", "G", "5", "3", " ", "G", "0", " ", "Z", "0", ".", "\n">>

LnN30 == <<"N", "3", "0", " ", "G", "1", "\n">>

LnNT3 == <<"N", "T", "3", " ", "M", "6", "\n">>

LnG1 == <<"G", "1", "\n">>

LnM30 == <<"M", "3", "0", "\n">>

LnPercent == <<"%", "\n">>

LnM2 == <<"M", "2", "\n">>

LnIndented == <<" ", "N", "7", " ", "T", "4", " ", "M", "6", "\n">>

LnG90 == <<"N", "1", "0", " ", "G", "9", "0", "\n">>

\* a comment that names the program end code
LnEnd == <<"(", "M", "3", "0", ")", "\n">>

\* a last line of a file that has no line terminator
LnN60Open == <<"N", "6", "0", " ", "G", "1">>

\* the lines of the single programs that are enumerated exhaustively
LineVocab == {LnOp, LnNote, LnNT1, LnT2, LnRetract, LnN30, LnNT3, LnG1, LnM30}

\* the lines of the outputs handed to validate_output alone
LnN5M30 == <<"N", "5", " ", "M", "3", "0", "\n">>

OutputVocab == {LnG1, LnNT1, LnM30, LnN5M30, LnPercent}

FnP2 == <<"p", "2", ".", "n", "g", "c">>

FnP10 == <<"p", "1", "0", ".", "n", "g", "c">>

FnP1 == <<"p", "1", ".", "n", "g", "c">>

FnP01 == <<"p", "0", "1", ".", "n", "g", "c">>

FnPX == <<"p", "X", ".", "n", "g", "c">>

FnA3B7 == <<"a", "3", "b", "7", ".", "n", "g", "c">>

FnTxt == <<"q", "4", ".", "t", "x", "t">>

FileVocab == {FnP2, FnP10, FnP1, FnP01, FnPX, FnA3B7, FnTxt}

MaxLines == 3

MaxOut == 3

MaxFiles == 4

MaxProgs == 2

\* whole programs, as exported and as damaged
Corpus ==
    { <<LnG90, LnRetract, LnOp, LnNT1, LnN30, LnM30, LnPercent>>,
      <<LnG1, LnGen, LnT2, LnN30, LnM2>>,
      <<LnNT1, LnTool, LnIndented, LnPercent>>,
      <<LnOp, LnN60Open>>,
      <<LnG1, LnM30>>,
      <<LnOp, LnEnd, LnN30, LnM30>>,
      <<>> }

SeqsUpTo(S, n) == UNION {[1..k -> S] : k \in 0..n}

\* the lists of input programs of the runs that are checked
InputLists ==
    SeqsUpTo(Corpus, MaxProgs) \cup {<<prog>> : prog \in SeqsUpTo(LineVocab, MaxLines)}

\* the directory listings: names of the directory, no name twice, in any order
Listings ==
    {l \in SeqsUpTo(FileVocab, MaxFiles) : \A i, j \in 1..Len(l) : l[i] = l[j] => i = j}

\* the outputs handed to validate_output alone
Outputs == SeqsUpTo(OutputVocab, MaxOut) \ {<<>>}

(***************************************************************************)
(* State of one run of main.                                               *)
(***************************************************************************)
VARIABLES
    input_files,            \* the contents of the files of input_files_list, in order
    renumber,               \* option, not --no-renumber
    keep_all_comments,      \* option --keep-all-comments
    insert_toolchange_call, \* option --insert-toolchange-call
    pc,                     \* position in main
    file_index,             \* number of input files read so far
    header_lines,
    all_operation_bodies,
    line_index,             \* number of lines clean_and_renumber has consumed
    output_lines,           \* output_lines of clean_and_renumber
    current_n,
    stats,                  \* ScriptStats
    out_file,               \* text of the output file
    dir_listing,            \* directory mode: the names in the input directory
    input_files_list,       \* directory mode: the files chosen, in merge order
    dir_pc,                 \* directory mode: position in the script
    logfile_path,           \* option --log: a log file is given
    logfile_open,           \* logger.logfile is open
    out_open                \* the handle of the output file being written is open

vars == <<input_files, renumber, keep_all_comments, insert_toolchange_call, pc,
          file_index, header_lines, all_operation_bodies, line_index,
          output_lines, current_n, stats, out_file, dir_listing, input_files_list,
          dir_pc, logfile_path, logfile_open, out_open>>

\* the log sink and the output handle
iovars == <<logfile_path, logfile_open, out_open>>

dirvars == <<dir_listing, input_files_list, dir_pc>>

options == <<renumber, keep_all_comments, insert_toolchange_call>>

ScriptStats ==
    [comments_kept |-> 0, comments_removed |-> 0, toolchanges |-> 0,
     toolchange_calls |-> 0, lines_renumbered |-> 0, total_output_lines |-> 0,
     validation_errors |-> <<>>]

InitRun(files) ==
    /\ input_files = files
    /\ renumber \in BOOLEAN
    /\ keep_all_comments \in BOOLEAN
    /\ insert_toolchange_call \in BOOLEAN
    /\ pc = IF Len(files) = 0 THEN "clean" ELSE "read"
    /\ file_index = 0
    /\ header_lines = <<>>
    /\ all_operation_bodies = <<>>
    /\ line_index = 0
    /\ output_lines = <<>>
    /\ current_n = start_n
    /\ stats = ScriptStats
    /\ out_file = <<>>
    /\ out_open = FALSE

\* TeeLogger(None): no log file
NoLog ==
    /\ logfile_path = FALSE
    /\ logfile_open = FALSE

NoDirectory ==
    /\ dir_listing = <<>>
    /\ input_files_list = <<>>
    /\ dir_pc = "none"

Init == NoDirectory /\ NoLog /\ \E files \in InputLists : InitRun(files)

\* one iteration of the loop over input_files_list
ReadFile ==
    /\ pc = "read"
    /\ LET gcode_lines == input_files[file_index + 1]
       IN  /\ header_lines' = IF file_index = 0 THEN extract_header(gcode_lines)
                              ELSE header_lines
           /\ all_operation_bodies' = all_operation_bodies \o extract_body(gcode_lines)
    /\ file_index' = file_index + 1
    /\ pc' = IF file_index + 1 = Len(input_files) THEN "clean" ELSE "read"
    /\ UNCHANGED dirvars
    /\ UNCHANGED iovars
    /\ UNCHANGED <<input_files, options, line_index, output_lines, current_n, stats,
                   out_file>>

\* open() of an input file raises: main is left by the exception
ReadFileFails ==
    /\ pc = "read"
    /\ pc' = "aborted"
    /\ UNCHANGED dirvars
    /\ UNCHANGED iovars
    /\ UNCHANGED <<input_files, options, file_index, header_lines,
                   all_operation_bodies, line_index, output_lines, current_n, stats,
                   out_file>>

\* one iteration of the loop of clean_and_renumber
CleanLine ==
    /\ pc = "clean"
    /\ line_index < Len(all_operation_bodies)
    /\ LET line == all_operation_bodies[line_index + 1]
           call == inserts_call(insert_toolchange_call, line)
           with_call == IF call THEN Append(output_lines, toolchange_call_line)
                        ELSE output_lines
       IN  IF is_comment(line)
           THEN IF keeps_comment(keep_all_comments, line)
                THEN /\ output_lines' = Append(output_lines, line)
                     /\ stats' = [stats EXCEPT !.comments_kept = @ + 1]
                     /\ UNCHANGED current_n
                ELSE /\ stats' = [stats EXCEPT !.comments_removed = @ + 1]
                     /\ UNCHANGED <<output_lines, current_n>>
           ELSE IF renumbers(renumber, line)
                THEN /\ output_lines' = Append(with_call, numbered_line(current_n, line))
                     /\ stats' = [stats EXCEPT
                            !.toolchange_calls = @ + (IF call THEN 1 ELSE 0),
                            !.toolchanges = @ + (IF match_toolchange(line) THEN 1 ELSE 0),
                            !.lines_renumbered = @ + 1]
                     /\ current_n' = next_n(current_n)
                ELSE /\ output_lines' = Append(with_call, line)
                     /\ stats' = [stats EXCEPT
                            !.toolchange_calls = @ + (IF call THEN 1 ELSE 0),
                            !.toolchanges = @ + (IF match_toolchange(line) THEN 1 ELSE 0)]
                     /\ UNCHANGED current_n
    /\ line_index' = line_index + 1
    /\ UNCHANGED dirvars
    /\ UNCHANGED iovars
    /\ UNCHANGED <<input_files, options, pc, file_index, header_lines,
                   all_operation_bodies, out_file>>

\* the end of clean_and_renumber
CleanReturn ==
    /\ pc = "clean"
    /\ line_index = Len(all_operation_bodies)
    /\ stats' = [stats EXCEPT !.total_output_lines = Len(output_lines)]
    /\ pc' = "write"
    /\ UNCHANGED dirvars
    /\ UNCHANGED iovars
    /\ UNCHANGED <<input_files, options, file_index, header_lines,
                   all_operation_bodies, line_index, output_lines, current_n, out_file>>

\* open(output_file_path, 'w') succeeds: the file is truncated
OpenOutput ==
    /\ pc = "write"
    /\ out_file' = <<>>
    /\ out_open' = TRUE
    /\ pc' = "writing"
    /\ UNCHANGED dirvars
    /\ UNCHANGED <<logfile_path, logfile_open>>
    /\ UNCHANGED <<input_files, options, file_index, header_lines,
                   all_operation_bodies, line_index, output_lines, current_n, stats>>

\* the body of the with-block that writes the output file, and its exit
WriteOutput ==
    /\ pc = "writing"
    /\ out_file' = assemble(header_lines, output_lines)
    /\ out_open' = FALSE
    /\ pc' = "validate"
    /\ UNCHANGED dirvars
    /\ UNCHANGED <<logfile_path, logfile_open>>
    /\ UNCHANGED <<input_files, options, file_index, header_lines,
                   all_operation_bodies, line_index, output_lines, current_n, stats>>

\* open() of the output path raises
WriteOutputFails ==
    /\ pc = "write"
    /\ pc' = "aborted"
    /\ UNCHANGED dirvars
    /\ UNCHANGED iovars
    /\ UNCHANGED <<input_files, options, file_index, header_lines,
                   all_operation_bodies, line_index, output_lines, current_n, stats,
                   out_file>>

\* the output is read back and validated; output_lines[-1] raises on no lines
Validate ==
    /\ pc = "validate"
    /\ LET lines == readlines(out_file)
       IN  IF Len(lines) = 0
           THEN /\ pc' = "aborted"
                /\ UNCHANGED stats
           ELSE /\ stats' = [stats EXCEPT
                       !.validation_errors = validate_output(lines, stats.toolchanges)]
                /\ pc' = "summary"
    /\ UNCHANGED dirvars
    /\ UNCHANGED iovars
    /\ UNCHANGED <<input_files, options, file_index, header_lines,
                   all_operation_bodies, line_index, output_lines, current_n, out_file>>

\* the summary is logged, the log file is closed if there is one, main returns
Summary ==
    /\ pc = "summary"
    /\ logfile_open' = FALSE
    /\ pc' = "done"
    /\ UNCHANGED dirvars
    /\ UNCHANGED <<logfile_path, out_open>>
    /\ UNCHANGED <<input_files, options, file_index, header_lines,
                   all_operation_bodies, line_index, output_lines, current_n, stats,
                   out_file>>

Next ==
    \/ ReadFile
    \/ ReadFileFails
    \/ CleanLine
    \/ CleanReturn
    \/ OpenOutput
    \/ WriteOutput
    \/ WriteOutputFails
    \/ Validate
    \/ Summary

Spec == Init /\ [][Next]_vars

(***************************************************************************)
(* Runs of main with and without --log, after TeeLogger has opened the log *)
(* file.                                                                   *)
(***************************************************************************)
InitLog ==
    /\ NoDirectory
    /\ logfile_path \in BOOLEAN
    /\ logfile_open = logfile_path
    /\ \E files \in SeqsUpTo(Corpus, MaxProgs) : InitRun(files)

SpecLog == InitLog /\ [][Next]_vars

(***************************************************************************)
(* validate_output called on its own, on a list of lines and a counter.    *)
(***************************************************************************)
InitValidate ==
    /\ NoDirectory
    /\ NoLog
    /\ out_open = FALSE
    /\ input_files = <<>>
    /\ renumber = TRUE
    /\ keep_all_comments = FALSE
    /\ insert_toolchange_call = FALSE
    /\ pc = "validate"
    /\ file_index = 0
    /\ header_lines = <<>>
    /\ all_operation_bodies = <<>>
    /\ line_index = 0
    /\ output_lines = <<>>
    /\ current_n = start_n
    /\ \E lines \in Outputs, n \in 0..1 :
          /\ out_file = Flatten(lines)
          /\ stats = [ScriptStats EXCEPT !.toolchanges = n]

NextValidate == Validate \/ Summary

SpecValidate == InitValidate /\ [][NextValidate]_vars

(***************************************************************************)
(* The script in directory mode, up to the call of main.                   *)
(***************************************************************************)
InitDirectory ==
    /\ dir_listing \in Listings
    /\ input_files_list = <<>>
    /\ dir_pc = "list"
    /\ NoLog
    /\ InitRun(<<>>)
    /\ renumber = TRUE
    /\ keep_all_comments = FALSE
    /\ insert_toolchange_call = FALSE

mainvars == <<input_files, options, pc, file_index, header_lines,
              all_operation_bodies, line_index, output_lines, current_n, stats,
              out_file, iovars>>

GetFilesSorted ==
    /\ dir_pc = "list"
    /\ input_files_list' = get_files_sorted_by_number(dir_listing)
    /\ dir_pc' = "sorted"
    /\ UNCHANGED <<dir_listing, mainvars>>

\* "No numbered .ngc files found in directory.", sys.exit(2)
ExitNoFiles ==
    /\ dir_pc = "sorted"
    /\ Len(input_files_list) = 0
    /\ dir_pc' = "exit"
    /\ UNCHANGED <<dir_listing, input_files_list, mainvars>>

CallMain ==
    /\ dir_pc = "sorted"
    /\ Len(input_files_list) > 0
    /\ dir_pc' = "main"
    /\ UNCHANGED <<dir_listing, input_files_list, mainvars>>

NextDirectory == GetFilesSorted \/ ExitNoFiles \/ CallMain

SpecDirectory == InitDirectory /\ [][NextDirectory]_vars

(***************************************************************************)
(* Properties.                                                             *)
(***************************************************************************)
Last(seq) == seq[Len(seq)]

Written == pc \in {"validate", "summary", "done"}

\* the lines of the merged stream that clean_and_renumber has consumed
Consumed == SubSeq(all_operation_bodies, 1, line_index)

Min(S) == CHOOSE i \in S : \A j \in S : i <= j

\* C1: once the output file is written, its last four lines are M5, G53 G0 Z0.,
\* M30 and %, in that order, and the file is the header, a line break, the
\* normalised body, a line break and this block once, whatever the inputs hold.
C1_ClosingBlock ==
    Written =>
        LET lines == readlines(out_file)
            block == <<"M", "5", "\n",
                       "G", "5", "3", " ", "G", "0", " ", "Z", "0", ".", "\n",
                       "M", "3", "0", "\n",
                       "%", "\n">>
        IN  /\ Len(lines) >= 4
            /\ SubSeq(lines, Len(lines) - 3, Len(lines))
                 = << <<"M", "5", "\n">>,
                      <<"G", "5", "3", " ", "G", "0", " ", "Z", "0", ".", "\n">>,
                      <<"M", "3", "0", "\n">>,
                      <<"%", "\n">> >>
            /\ out_file = Flatten(header_lines) \o <<"\n">> \o Flatten(output_lines)
                              \o <<"\n">> \o block

\* a finished run whose header and body both hold lines, the header an M30 of its own
C1_Witness ==
    /\ pc = "done"
    /\ Len(output_lines) > 0
    /\ \E i \in 1..Len(header_lines) : contains_m30(header_lines[i])

\* C2 (as claimed): in the written output the lines before the first blank
\* separator line are exactly extract_header of program 1, and the separator
\* follows them.
C2_HeaderLines ==
    (Written /\ Len(input_files) > 0) =>
        LET lines == readlines(out_file)
            header == extract_header(input_files[1])
        IN  /\ Len(lines) > Len(header)
            /\ SubSeq(lines, 1, Len(header)) = header
            /\ lines[Len(header) + 1] = <<"\n">>

\* trimmed content begins with N followed by a digit
SequencedInstruction(line) ==
    LET t == strip(line)
    IN  Len(t) >= 2 /\ t[1] = "N" /\ t[2] \in Digit

BeginsWithN(line) == startswith(lstrip(line), <<"N">>)

\* the line without leading blanks, sequence number and the blanks after it
WithoutNumber(line) ==
    LET s == lstrip(line)
        a == SkipClass(s, 2, Digit)
    IN  SubSeq(s, SkipClass(s, a, SpaceTab), Len(s))

\* C3: with renumbering on, the k-th renumbered line of the normalised body
\* carries start + (k-1)*step, the new numbers are all the N-lines of the body,
\* and a sequenced instruction just consumed is emitted with its old number
\* replaced by the new one.
C3_Renumbering ==
    renumber =>
        LET numbered == SelectSeq(output_lines, BeginsWithN)
        IN  /\ Len(numbered) = stats.lines_renumbered
            /\ \A k \in 1..Len(numbered) :
                  startswith(numbered[k],
                      <<"N">> \o Digits(start_n + (k - 1) * step_n) \o <<" ">>)
            /\ (/\ line_index > 0
                /\ ~is_comment(Last(Consumed))
                /\ SequencedInstruction(Last(Consumed)))
                  => /\ Len(numbered) > 0
                     /\ Last(output_lines)
                          = <<"N">> \o Digits(start_n + (Len(numbered) - 1) * step_n)
                              \o <<" ">> \o WithoutNumber(Last(Consumed))

\* the third renumbered instruction has been emitted
C3_Witness ==
    /\ renumber
    /\ stats.lines_renumbered >= 3
    /\ line_index > 0
    /\ SequencedInstruction(Last(Consumed))

RenumberedInstruction(line) == ~is_comment(line) /\ SequencedInstruction(line)

\* C4 (as claimed): a kept line that is no sequenced instruction is emitted
\* unchanged and takes no number: the running number and lines_renumbered count
\* the sequenced instructions only; with renumbering off both stay as they start.
C4_OthersUnchanged ==
    LET sequenced == Len(SelectSeq(Consumed, RenumberedInstruction))
    IN  /\ renumber => /\ stats.lines_renumbered = sequenced
                       /\ current_n = start_n + sequenced * step_n
        /\ ~renumber => /\ stats.lines_renumbered = 0
                        /\ current_n = start_n
        /\ (/\ line_index > 0
            /\ ~is_comment(Last(Consumed))
            /\ (~renumber \/ ~SequencedInstruction(Last(Consumed))))
              => Last(output_lines) = Last(Consumed)

CommentLine(line) == is_comment(line)

KeptComment(line) ==
    is_comment(line) /\ (keep_all_comments \/ is_important_comment(line))

\* C5: of the comment lines consumed, the important ones are kept (all of them
\* with keep_all_comments) and the others dropped; comments_kept and
\* comments_removed count the two groups, and the kept ones are the comment
\* lines of the normalised body, in order.
C5_CommentFilter ==
    LET comments == SelectSeq(Consumed, CommentLine)
        kept == SelectSeq(Consumed, KeptComment)
    IN  /\ is_important_comment(LnOp) /\ is_important_comment(LnTool)
        /\ ~is_important_comment(LnGen) /\ ~is_important_comment(LnNote)
        /\ stats.comments_kept = Len(kept)
        /\ stats.comments_removed = Len(comments) - Len(kept)
        /\ SelectSeq(output_lines, CommentLine) = kept

\* default settings: an important comment kept and a generic one dropped
C5_Witness ==
    /\ pc = "done"
    /\ ~keep_all_comments
    /\ stats.comments_kept >= 1
    /\ stats.comments_removed >= 1

ToolchangeLine(line) == ~is_comment(line) /\ match_toolchange(line)

CallLine(line) == line = toolchange_call_line

\* C6: toolchanges counts the toolchange lines consumed, whatever the option.
\* With the option on, toolchange_calls equals it, there are as many call lines
\* in the normalised body, each toolchange line of the body has one call line
\* right before it, and a toolchange line just consumed was emitted right after
\* one.  With the option off there is no call line and toolchange_calls is 0.
C6_ToolchangeCalls ==
    LET found == Len(SelectSeq(Consumed, ToolchangeLine))
        calls == Len(SelectSeq(output_lines, CallLine))
    IN  /\ stats.toolchanges = found
        /\ insert_toolchange_call =>
              /\ stats.toolchange_calls = found
              /\ calls = found
              /\ \A i \in 1..Len(output_lines) :
                    ToolchangeLine(output_lines[i]) =>
                        /\ i > 1
                        /\ output_lines[i - 1] = toolchange_call_line
                        /\ i > 2 => output_lines[i - 2] # toolchange_call_line
              /\ (line_index > 0 /\ ToolchangeLine(Last(Consumed))) =>
                    /\ Len(output_lines) >= 2
                    /\ output_lines[Len(output_lines) - 1] = toolchange_call_line
        /\ ~insert_toolchange_call =>
              /\ stats.toolchange_calls = 0
              /\ calls = 0

\* two call lines inserted
C6_Witness ==
    /\ pc = "done"
    /\ insert_toolchange_call
    /\ stats.toolchange_calls = 2
    /\ stats.toolchanges = 2

ErrorCount(text) ==
    Cardinality({i \in 1..Len(stats.validation_errors) :
                    stats.validation_errors[i].text = text})

\* C7: validation of a list of lines ends without raising; the error list of the
\* statistics then holds the "no M30" error once if no line contains M30, the
\* "multiple M30" error once if more than one does, and neither if exactly one does.
C7_ProgramEnd ==
    /\ pc # "aborted"
    /\ pc \in {"summary", "done"} =>
          LET lines == readlines(out_file)
              m30 == Cardinality({i \in 1..Len(lines) :
                        \E j \in 1..Len(lines[i]) :
                            MatchAt(lines[i], j, <<"M", "3", "0">>)})
          IN  /\ ErrorCount("No M30 found in output (should end program)")
                    = IF m30 = 0 THEN 1 ELSE 0
              /\ ErrorCount("Multiple M30 lines found in output")
                    = IF m30 > 1 THEN 1 ELSE 0

\* an output with two M30 lines was validated and the run went on to its end
C7_Witness ==
    /\ pc = "done"
    /\ out_file = Flatten(<<LnM30, LnN5M30, LnPercent>>)
    /\ ErrorCount("Multiple M30 lines found in output") = 1

\* the number before .ngc of the file names of the model, read off by hand
NumberOf(filename) ==
    CASE filename = FnP2 -> 2
      [] filename = FnP10 -> 10
      [] filename = FnP1 -> 1
      [] filename = FnP01 -> 1
      [] filename = FnA3B7 -> 7
      [] OTHER -> -1

Range(seq) == {seq[i] : i \in 1..Len(seq)}

\* C8: the files returned are exactly the files of the directory with a number
\* right before .ngc, each once, in ascending order of that number.
C8_DirectoryOrder ==
    dir_pc # "list" =>
        /\ Range(input_files_list) = {f \in Range(dir_listing) : NumberOf(f) # -1}
        /\ Len(input_files_list) = Cardinality(Range(input_files_list))
        /\ \A i, j \in 1..Len(input_files_list) :
              i < j => NumberOf(input_files_list[i]) <= NumberOf(input_files_list[j])

\* part2, part10, part1, partX gives part1, part2, part10
C8_Witness ==
    /\ dir_pc = "main"
    /\ dir_listing = <<FnP2, FnP10, FnP1, FnPX>>
    /\ input_files_list = <<FnP1, FnP2, FnP10>>

\* a line that ends the header according to the classifier
HeaderEnd(line) == match_retract(line) \/ ToolchangeLine(line)

\* C9 (as claimed): the header is the prefix of program 1 up to and including the
\* first line that is the N20 retract or a toolchange line of the classifier,
\* the whole program if there is none.
C9_HeaderPrefix ==
    file_index >= 1 =>
        LET lines == input_files[1]
            ends == {i \in 1..Len(lines) : HeaderEnd(lines[i])}
        IN  header_lines = IF ends = {} THEN lines ELSE SubSeq(lines, 1, Min(ends))

BodyStart(line) == is_comment(line) \/ ToolchangeLine(line)

\* C10 (as claimed): the body of a program runs from its first comment or
\* toolchange line of the classifier up to, not including, the first terminator
\* at or after it; it is empty if there is no such first line.
C10_BodyRun ==
    (Len(input_files) = 1 /\ file_index = 1) =>
        LET lines == input_files[1]
            starts == {i \in 1..Len(lines) : BodyStart(lines[i])}
            from == Min(starts)
            stops == {i \in from..Len(lines) : is_terminator(lines[i])}
        IN  all_operation_bodies =
                IF starts = {} THEN <<>>
                ELSE SubSeq(lines, from, IF stops = {} THEN Len(lines) ELSE Min(stops) - 1)

\* C11 (as claimed): when a run has validated its output, the toolchange lines
\* counted in the output file are as many as the toolchanges counter says, and no
\* toolchange count mismatch is among the validation errors.
C11_NoCountMismatch ==
    pc \in {"summary", "done"} =>
        /\ Len(SelectSeq(readlines(out_file), match_toolchange)) = stats.toolchanges
        /\ ErrorCount("Internal error: toolchange count mismatch") = 0

NonCommentBeginsWithN(line) == ~is_comment(line) /\ BeginsWithN(line)

\* C12 (as claimed): a comment line is a comment for every stage.  The header
\* never ends at a comment; the line at which the collection of a body stops is
\* never a comment; and the counters of toolchanges, of inserted calls and of
\* renumbered lines count lines that are no comments only, the kept comments
\* being emitted as they are.
C12_CommentPriority ==
    /\ (file_index >= 1 /\ Len(header_lines) < Len(input_files[1]))
          => ~is_comment(Last(header_lines))
    /\ (Len(input_files) = 1 /\ file_index = 1) =>
          LET lines == input_files[1]
              starts == {i \in 1..Len(lines) : starts_body(lines[i])}
              stop == Min(starts) + Len(all_operation_bodies)
          IN  (starts # {} /\ stop <= Len(lines)) => ~is_comment(lines[stop])
    /\ stats.toolchanges = Len(SelectSeq(Consumed, ToolchangeLine))
    /\ stats.toolchange_calls =
          IF insert_toolchange_call THEN Len(SelectSeq(Consumed, ToolchangeLine)) ELSE 0
    /\ stats.lines_renumbered =
          IF renumber THEN Len(SelectSeq(Consumed, NonCommentBeginsWithN)) ELSE 0
    /\ SelectSeq(output_lines, CommentLine) = SelectSeq(Consumed, KeptComment)

\* C13 (as claimed): when a run started with a log file has ended, by returning
\* or by an exception of open(), the log file is closed and so is the handle of
\* the output file.
C13_HandlesClosed ==
    (logfile_path /\ pc \in {"done", "aborted"}) => (~logfile_open /\ ~out_open)

====
